---- MODULE Spec2Model ----
(***************************************************************************)
(* QuickTransType front end: the configuration store (appState.ts), the    *)
(* settings shell (Settings.svelte, App.svelte) and the hotkey capture     *)
(* component (HotkeySettings.svelte), together with the backend commands   *)
(* they invoke (get_config, save_config, check_hotkey_conflicts).          *)
(*                                                                         *)
(* Every `invoke` is a request that the backend answers later; the answer  *)
(* lands in the front end later still, so requests overlap and land in any *)
(* order.  JavaScript itself is single-threaded: each handler below runs   *)
(* to its first `await` (or to its end) as one atomic step.                *)
(***************************************************************************)
EXTENDS Integers, Sequences, FiniteSets, TLC

\* ------------------------------------------------------------------ bounds
\* get_config / save_config requests issued in one run
MaxReq == 3

\* ------------------------------------------------------------- JS values
\* JavaScript null for object-typed slots (config, conflictWarning payloads)
null == [null |-> TRUE]
\* JavaScript null for string-typed slots (error)
nullString == "<null>"

\* failure messages the backend can reject a command with
ErrMsgs == {"disk full"}

\* ------------------------------------------------------------ appState.ts
\* defaultConfig (the llm prompts and the two float parameters carry no
\* behaviour and are left out; language names are transliterated).
defaultConfig ==
  [ llm |-> [ base_url |-> "https://api.openai.com/v1", api_key |-> "",
              model |-> "gpt-4o-mini", stream_mode |-> TRUE ],
    hotkey |-> [ selected_mode |-> [ type |-> "Combination",
                                     modifiers |-> <<"Meta">>, key |-> "t" ],
                 full_mode |-> [ type |-> "Consecutive", key |-> " ",
                                 count |-> 3 ] ],
    language |-> [ current_target |-> "en-US",
                   favorite_languages |->
                     << [code |-> "en-US", name |-> "English"],
                        [code |-> "zh-CN", name |-> "Chinese"],
                        [code |-> "ja-JP", name |-> "Japanese"],
                        [code |-> "ko-KR", name |-> "Korean"],
                        [code |-> "fr-FR", name |-> "Francais"],
                        [code |-> "es-ES", name |-> "Espanol"] >> ],
    history_limit |-> 500 ]

\* the initial value of the writable store in createAppState
initialAppState ==
  [ config |-> null, isLoading |-> FALSE, error |-> nullString,
    isEnabled |-> TRUE ]

VARIABLES
  appState,           \* the writable<AppStateData> of createAppState
  backend,            \* the configuration the backend has persisted
  reqs,               \* get_config / save_config requests, in issue order
  queries,            \* check_hotkey_conflicts requests, in issue order
  activeTab,          \* App.svelte: activeTab
  mounted,            \* whether a HotkeySettings instance is rendered
  selectedRecording,  \* HotkeySettings.svelte state
  fullRecording,
  conflictWarning,
  selectedMode,
  fullMode,
  consecutiveCount,
  focus,              \* which control of the component holds input focus
  languageProps,      \* LanguageSettings.svelte: its props, null if not rendered
  onUpdateLog,        \* the (selected, full) pairs onUpdate was called with
  last                \* the handler that ran last, and its input

storeVars == <<appState, backend, reqs>>
compVars == <<mounted, selectedRecording, fullRecording, conflictWarning,
              selectedMode, fullMode, consecutiveCount, focus>>
vars == <<appState, backend, reqs, queries, activeTab, mounted,
          selectedRecording, fullRecording, conflictWarning, selectedMode,
          fullMode, consecutiveCount, focus, languageProps, onUpdateLog, last>>


\* ---------------------------------------------------------------- inputs
\* a KeyboardEvent, as far as the handlers read it
KeyboardEvent(held, k) ==
  [ metaKey |-> "Meta" \in held, ctrlKey |-> "Control" \in held,
    altKey |-> "Alt" \in held, shiftKey |-> "Shift" \in held, key |-> k ]
\* the key-downs delivered to the component
KeyEvents ==
  { KeyboardEvent({"Meta"}, "t"),
    KeyboardEvent({"Control", "Alt", "Shift"}, "K"),
    KeyboardEvent({}, " "),
    KeyboardEvent({}, "K"),
    KeyboardEvent({"Shift"}, "Shift"),
    KeyboardEvent({"Meta"}, "Meta") }
\* values typed into the repeat-count field
CountInputs == {3, 5, 12}
\* languages picked in the header selector
TargetInputs == {"zh-CN"}


\* ------------------------------------------------------ store operations
\* variant: a load drops the configuration in memory while it is pending
loadConfigStart_dropsConfig(state) ==
  [state EXCEPT !.config = null, !.isLoading = TRUE, !.error = nullString]

\* loadConfig, up to its await: update(isLoading: true, error: null)
loadConfigStart(state) ==
  [state EXCEPT !.isLoading = TRUE, !.error = nullString]

\* variant: the fetched configuration is dropped
loadConfigResolved_ignores(state, config) ==
  [state EXCEPT !.isLoading = FALSE]

\* loadConfig, after get_config resolved with `config`
loadConfigResolved(state, config) ==
  [state EXCEPT !.config = config, !.isLoading = FALSE]

\* variant: the catch branch only drops the loading flag
loadConfigRejected_keepsConfig(state) ==
  [state EXCEPT !.isLoading = FALSE]

\* loadConfig, after get_config rejected: the catch branch
loadConfigRejected(state) ==
  [state EXCEPT !.config = defaultConfig, !.isLoading = FALSE]

\* variant: the error is not cleared before the await
saveConfigStart_keepsError(state) ==
  [state EXCEPT !.isLoading = TRUE]

\* saveConfig, up to its await
saveConfigStart(state) ==
  [state EXCEPT !.isLoading = TRUE, !.error = nullString]

\* variant: a resolved save installs its candidate only into an empty store
saveConfigResolved_firstWins(state, config) ==
  [state EXCEPT !.config = IF state.config = null THEN config
                           ELSE state.config,
                !.isLoading = FALSE]

\* saveConfig, after save_config resolved
saveConfigResolved(state, config) ==
  [state EXCEPT !.config = config, !.isLoading = FALSE]

\* variant: the catch branch of saveConfig falls back to the default
\* configuration as the one of loadConfig does
saveConfigRejected_fallsBack(state, e) ==
  [state EXCEPT !.config = defaultConfig, !.error = e, !.isLoading = FALSE]

\* saveConfig, after save_config rejected with e
saveConfigRejected(state, e) ==
  [state EXCEPT !.error = e, !.isLoading = FALSE]

\* what saveConfig returns to its caller
saveConfigReturn(ok, e) ==
  IF ok THEN [success |-> TRUE] ELSE [success |-> FALSE, error |-> e]

\* a request as issued: not yet seen by the backend.  latest and from record
\* where the persisted configuration comes from; prior is the store's state
\* before the call, kept for a saveConfig that passes the configuration in
\* memory while no other call is in flight.
Request(kind, config, origin) ==
  [ kind |-> kind, status |-> "sent", config |-> config, origin |-> origin,
    ok |-> FALSE, error |-> nullString, ret |-> null,
    latest |-> FALSE, from |-> 0, prior |-> null ]

\* Bookkeeping of which save_config the persisted configuration comes from:
\* the request whose write was the last to be executed carries latest, and
\* an executed get_config records that request's index in from (0: the
\* configuration the backend started with).
LatestSave(rs) ==
  IF \E j \in DOMAIN rs : rs[j].latest
  THEN CHOOSE j \in DOMAIN rs : rs[j].latest
  ELSE 0

MarkLatest(rs, i) == [k \in DOMAIN rs |-> [rs[k] EXCEPT !.latest = (k = i)]]

\* ---------------------------------------------- the component's lifetime
\* Settings.svelte renders HotkeySettings iff config is set and the hotkey
\* tab is active
Rendered(state, tab) == state.config # null /\ tab = "hotkey"

\* HotkeySettings.svelte instance script: runs once per instance
initConsecutiveCount(full) ==
  IF full.type = "Consecutive"
  THEN (IF "count" \in DOMAIN full THEN full.count ELSE 3)
  ELSE 3

\* The component after the store or the tab changed: a fresh instance when
\* it comes into view, nothing when it goes out of view, untouched else.
Render(state, tab) ==
  IF Rendered(state, tab) /\ ~mounted
  THEN /\ mounted' = TRUE
       /\ selectedRecording' = FALSE
       /\ fullRecording' = FALSE
       /\ conflictWarning' = null
       /\ selectedMode' = state.config.hotkey.selected_mode
       /\ fullMode' = state.config.hotkey.full_mode
       /\ consecutiveCount' = initConsecutiveCount(state.config.hotkey.full_mode)
       /\ focus' = "none"
       /\ queries' = queries
  ELSE IF ~Rendered(state, tab) /\ mounted
  THEN /\ mounted' = FALSE
       /\ selectedRecording' = FALSE
       /\ fullRecording' = FALSE
       /\ conflictWarning' = null
       /\ selectedMode' = null
       /\ fullMode' = null
       /\ consecutiveCount' = 3
       /\ focus' = "none"
       /\ queries' = [q \in DOMAIN queries |->
                        [queries[q] EXCEPT !.live = FALSE]]
  ELSE UNCHANGED <<compVars, queries>>

\* Settings.svelte renders LanguageSettings iff config is set and the
\* language tab is active
RenderedLanguage(state, tab) == state.config # null /\ tab = "language"

\* The props of LanguageSettings after the store or the tab changed: those
\* of a fresh instance when it comes into view; handed down again when the
\* store installed a configuration object (`installed`); else what the
\* component made of them.
RenderLanguage(state, tab, installed) ==
  languageProps' =
    IF ~RenderedLanguage(state, tab) THEN null
    ELSE IF languageProps = null \/ installed
    THEN [ languageConfig |-> state.config.language,
           historyLimit |-> state.config.history_limit ]
    ELSE languageProps

Init ==
  /\ appState = initialAppState
  /\ backend = defaultConfig
  /\ reqs = <<>>
  /\ queries = <<>>
  /\ activeTab = "llm"
  /\ mounted = FALSE
  /\ selectedRecording = FALSE
  /\ fullRecording = FALSE
  /\ conflictWarning = null
  /\ selectedMode = null
  /\ fullMode = null
  /\ consecutiveCount = 3
  /\ focus = "none"
  /\ languageProps = null
  /\ onUpdateLog = <<>>
  /\ last = "init"

\* ------------------------------------------- calls into the store
\* no call is in flight
Quiet(rs) == \A k \in DOMAIN rs : rs[k].status = "done"

\* appState.loadConfig(), up to its await on get_config
loadConfig ==
  /\ appState' = loadConfigStart(appState)
  /\ reqs' = Append(reqs, Request("get_config", null, "load"))

\* variant: the candidate is installed before the backend has answered
saveConfig_optimistic(config, origin) ==
  /\ appState' = [saveConfigStart(appState) EXCEPT !.config = config]
  /\ reqs' = Append(reqs, [Request("save_config", config, origin)
                             EXCEPT !.prior = IF config = appState.config
                                                 /\ Quiet(reqs)
                                              THEN appState ELSE null])

\* appState.saveConfig(config), up to its await on save_config
saveConfig(config, origin) ==
  /\ appState' = saveConfigStart(appState)
  /\ reqs' = Append(reqs, [Request("save_config", config, origin)
                             EXCEPT !.prior = IF config = appState.config
                                                 /\ Quiet(reqs)
                                              THEN appState ELSE null])

\* configurations a caller hands to saveConfig
Candidates ==
  { [defaultConfig EXCEPT !.language.current_target = "zh-CN"],
    [defaultConfig EXCEPT !.hotkey.full_mode.count = 5] }

\* any caller: appState.loadConfig()
CallLoadConfig ==
  /\ Len(reqs) < MaxReq
  /\ loadConfig
  /\ last' = "loadConfig"
  /\ UNCHANGED <<languageProps, backend, queries, activeTab, compVars, onUpdateLog>>

\* any caller: appState.saveConfig(candidate)
CallSaveConfig(candidate) ==
  /\ Len(reqs) < MaxReq
  /\ saveConfig(candidate, "caller")
  /\ last' = "saveConfig"
  /\ UNCHANGED <<languageProps, backend, queries, activeTab, compVars, onUpdateLog>>

\* ------------------------------------------------------------ App.svelte
\* onMount: await appState.loadConfig()
onMount ==
  /\ reqs = <<>>
  /\ Len(reqs) < MaxReq
  /\ loadConfig
  /\ last' = "onMount"
  /\ UNCHANGED <<languageProps, backend, queries, activeTab, compVars, onUpdateLog>>

\* the config-updated listener, registered once the first load completed
onConfigUpdated ==
  /\ Len(reqs) < MaxReq
  /\ IF reqs = <<>> THEN FALSE
     ELSE reqs[1].kind = "get_config" /\ reqs[1].status = "done"
  /\ loadConfig
  /\ last' = "config-updated"
  /\ UNCHANGED <<languageProps, backend, queries, activeTab, compVars, onUpdateLog>>

\* the tab buttons
SetActiveTab(tab) ==
  /\ tab # activeTab
  /\ activeTab' = tab
  /\ Render(appState, tab)
  /\ RenderLanguage(appState, tab, FALSE)
  /\ last' = "setActiveTab"
  /\ UNCHANGED <<storeVars, onUpdateLog>>

\* header language selector: handleTargetLanguageChange
handleTargetLanguageChange(newTarget) ==
  /\ Len(reqs) < MaxReq
  /\ appState.config # null
  /\ newTarget # appState.config.language.current_target
  /\ saveConfig([appState.config EXCEPT
                   !.language.current_target = newTarget], "language")
  /\ last' = "handleTargetLanguageChange"
  /\ UNCHANGED <<languageProps, backend, queries, activeTab, compVars, onUpdateLog>>

\* ------------------------------------------------------------ the backend
\* get_config answers with the persisted configuration
BackendGetConfigOk(i) ==
  /\ i \in DOMAIN reqs
  /\ reqs[i].kind = "get_config" /\ reqs[i].status = "sent"
  /\ reqs' = [reqs EXCEPT ![i].status = "answered", ![i].ok = TRUE,
                          ![i].config = backend,
                          ![i].from = LatestSave(reqs)]
  /\ last' = "get_config"
  /\ UNCHANGED <<languageProps, appState, backend, queries, activeTab, compVars, onUpdateLog>>

\* a command fails with a message
BackendFail(i, e) ==
  /\ i \in DOMAIN reqs
  /\ reqs[i].status = "sent"
  /\ reqs' = [reqs EXCEPT ![i].status = "answered", ![i].ok = FALSE,
                          ![i].error = e]
  /\ last' = "command failed"
  /\ UNCHANGED <<languageProps, appState, backend, queries, activeTab, compVars, onUpdateLog>>

\* save_config persists the configuration it was sent
BackendSaveConfigOk(i) ==
  /\ i \in DOMAIN reqs
  /\ reqs[i].kind = "save_config" /\ reqs[i].status = "sent"
  /\ backend' = reqs[i].config
  /\ reqs' = [MarkLatest(reqs, i) EXCEPT ![i].status = "answered",
                                         ![i].ok = TRUE]
  /\ last' = "save_config"
  /\ UNCHANGED <<languageProps, appState, queries, activeTab, compVars, onUpdateLog>>

\* the shortcuts the operating system reserves, as check_hotkey_conflicts
\* reports them
SystemConflicts(hotkey) ==
  IF hotkey.type = "Combination" /\ hotkey.modifiers = <<"Meta">>
  THEN <<"reserved by the system">>
  ELSE <<>>

\* ------------------------------------------- responses landing: appState
\* loadConfig resumes after its await
LoadConfigDone(i) ==
  /\ i \in DOMAIN reqs
  /\ reqs[i].kind = "get_config" /\ reqs[i].status = "answered"
  /\ appState' = IF reqs[i].ok
                 THEN loadConfigResolved(appState, reqs[i].config)
                 ELSE loadConfigRejected(appState)
  /\ reqs' = [reqs EXCEPT ![i].status = "done"]
  /\ Render(appState', activeTab)
  /\ RenderLanguage(appState', activeTab, TRUE)
  /\ last' = IF reqs[i].ok THEN "load resolved" ELSE "load rejected"
  /\ UNCHANGED <<backend, activeTab, onUpdateLog>>

\* variant: saveConfig without its catch: a rejection ends the call and the
\* store is not written
SaveConfigDone_noCatch(i) ==
  /\ i \in DOMAIN reqs
  /\ reqs[i].kind = "save_config" /\ reqs[i].status = "answered"
  /\ appState' = IF reqs[i].ok
                 THEN saveConfigResolved(appState, reqs[i].config)
                 ELSE appState
  /\ reqs' = [reqs EXCEPT ![i].status = "done",
                          ![i].ret = saveConfigReturn(reqs[i].ok, reqs[i].error)]
  /\ Render(appState', activeTab)
  /\ RenderLanguage(appState', activeTab, reqs[i].ok)
  /\ last' = IF reqs[i].ok THEN "save resolved" ELSE "save rejected"
  /\ UNCHANGED <<backend, activeTab, onUpdateLog>>

\* saveConfig resumes after its await
SaveConfigDone(i) ==
  /\ i \in DOMAIN reqs
  /\ reqs[i].kind = "save_config" /\ reqs[i].status = "answered"
  /\ appState' = IF reqs[i].ok
                 THEN saveConfigResolved(appState, reqs[i].config)
                 ELSE saveConfigRejected(appState, reqs[i].error)
  /\ reqs' = [reqs EXCEPT ![i].status = "done",
                          ![i].ret = saveConfigReturn(reqs[i].ok, reqs[i].error)]
  /\ Render(appState', activeTab)
  /\ RenderLanguage(appState', activeTab, reqs[i].ok)
  /\ last' = IF reqs[i].ok THEN "save resolved" ELSE "save rejected"
  /\ UNCHANGED <<backend, activeTab, onUpdateLog>>

\* ------------------------------------------------------- Settings.svelte
\* variant: the hotkeys are saved on top of the default configuration
updateHotkeyConfig_onDefault(selected, full) ==
  IF appState.config # null
  THEN saveConfig([defaultConfig EXCEPT
                     !.hotkey = [selected_mode |-> selected,
                                 full_mode |-> full]], "hotkey")
  ELSE UNCHANGED <<appState, reqs>>

\* updateHotkeyConfig(selected, full), up to the await inside saveConfig
updateHotkeyConfig(selected, full) ==
  IF appState.config # null
  THEN saveConfig([appState.config EXCEPT
                     !.hotkey = [selected_mode |-> selected,
                                 full_mode |-> full]], "hotkey")
  ELSE UNCHANGED <<appState, reqs>>

\* variant: the handler hands over the hotkeys as they were before the
\* key-down
onUpdate_stale(selected, full) ==
  /\ onUpdateLog' = Append(onUpdateLog,
                           [selected |-> selectedMode, full |-> fullMode])
  /\ updateHotkeyConfig(selectedMode, fullMode)

\* the onUpdate prop of HotkeySettings
onUpdate(selected, full) ==
  /\ onUpdateLog' = Append(onUpdateLog, [selected |-> selected, full |-> full])
  /\ updateHotkeyConfig(selected, full)

\* ------------------------------------------------- HotkeySettings.svelte
\* variant: the metaKey flag is not read
modifiersOf_noMeta(event) ==
  (IF event.ctrlKey THEN <<"Control">> ELSE <<>>) \o
  (IF event.altKey THEN <<"Alt">> ELSE <<>>) \o
  (IF event.shiftKey THEN <<"Shift">> ELSE <<>>)

\* the modifiers array built from the event's flags, in push order
modifiersOf(event) ==
  (IF event.metaKey THEN <<"Meta">> ELSE <<>>) \o
  (IF event.ctrlKey THEN <<"Control">> ELSE <<>>) \o
  (IF event.altKey THEN <<"Alt">> ELSE <<>>) \o
  (IF event.shiftKey THEN <<"Shift">> ELSE <<>>)

\* String.prototype.toLowerCase over the keys in use
toLowerCase(k) ==
  CASE k = "T" -> "t"
    [] k = "K" -> "k"
    [] k = "Meta" -> "meta"
    [] k = "Control" -> "control"
    [] k = "Alt" -> "alt"
    [] k = "Shift" -> "shift"
    [] OTHER -> k

\* variant: the list holds the key names as the browser reports them
isPureModifier_caseSensitive(key) ==
  key \in {"Meta", "Control", "Alt", "Shift"}

\* ["meta", "control", "alt", "shift"].includes(key)
isPureModifier(key) == key \in {"meta", "control", "alt", "shift"}

\* variant: the selected-text validation is skipped
missingModifier_never(modifiers) == FALSE

\* the selected-text validation: modifiers.length === 0
missingModifier(modifiers) == Len(modifiers) = 0

\* variant: the missing-modifier branch sets no message
MissingModifier_silent == null

\* the message of the missing-modifier branch
MissingModifier == [kind |-> "missing modifier"]
\* the message built from a non-empty conflict list
ConflictMessage(conflicts) == [kind |-> "conflict", conflicts |-> conflicts]

\* variant: the query carries the full-text hotkey
checkConflict_fullMode(selected) ==
  queries' = Append(queries,
               [hotkey |-> fullMode, status |-> "sent", live |-> TRUE])

\* checkConflict, up to its await: the query carries selectedMode as it is
\* when the call is made
checkConflict(selected) ==
  queries' = Append(queries,
               [hotkey |-> selected, status |-> "sent", live |-> TRUE])

\* variant: the handler does not test selectedRecording
handleSelectedKeydown_noGuard(event) ==
  /\ mounted /\ focus = "selected"
  /\ last' = IF selectedRecording THEN "handleSelectedKeydown"
             ELSE "handleSelectedKeydown, idle"
  /\ LET modifiers == modifiersOf(event)
         key == toLowerCase(event.key)
     IN IF isPureModifier(key)
        THEN UNCHANGED <<appState, reqs, queries, selectedRecording,
                         conflictWarning, selectedMode, onUpdateLog>>
        ELSE IF missingModifier(modifiers)
        THEN /\ conflictWarning' = MissingModifier
             /\ UNCHANGED <<appState, reqs, queries, selectedRecording,
                            selectedMode, onUpdateLog>>
        ELSE /\ Len(reqs) < MaxReq
             /\ selectedMode' = [type |-> "Combination",
                                 modifiers |-> modifiers, key |-> key]
             /\ conflictWarning' = null
             /\ selectedRecording' = FALSE
             /\ onUpdate(selectedMode', fullMode)
             /\ checkConflict(selectedMode')
  /\ UNCHANGED <<languageProps, backend, activeTab, mounted, fullRecording, fullMode,
                 consecutiveCount, focus>>

\* the selected-text button's onkeydown
handleSelectedKeydown(event) ==
  /\ mounted /\ focus = "selected"
  /\ last' = IF selectedRecording THEN "handleSelectedKeydown"
             ELSE "handleSelectedKeydown, idle"
  /\ LET modifiers == modifiersOf(event)
         key == toLowerCase(event.key)
     IN IF ~selectedRecording \/ isPureModifier(key)
        THEN UNCHANGED <<appState, reqs, queries, selectedRecording,
                         conflictWarning, selectedMode, onUpdateLog>>
        ELSE IF missingModifier(modifiers)
        THEN /\ conflictWarning' = MissingModifier
             /\ UNCHANGED <<appState, reqs, queries, selectedRecording,
                            selectedMode, onUpdateLog>>
        ELSE /\ Len(reqs) < MaxReq
             /\ selectedMode' = [type |-> "Combination",
                                 modifiers |-> modifiers, key |-> key]
             /\ conflictWarning' = null
             /\ selectedRecording' = FALSE
             /\ onUpdate(selectedMode', fullMode)
             /\ checkConflict(selectedMode')
  /\ UNCHANGED <<languageProps, backend, activeTab, mounted, fullRecording, fullMode,
                 consecutiveCount, focus>>

\* variant: a Consecutive candidate always starts from the default count
handleFullKeydown_defaultCount(event) ==
  /\ mounted /\ focus = "full"
  /\ last' = IF fullRecording THEN "handleFullKeydown"
             ELSE "handleFullKeydown, idle"
  /\ LET modifiers == modifiersOf(event)
         key == toLowerCase(event.key)
     IN IF ~fullRecording \/ isPureModifier(key)
        THEN UNCHANGED <<appState, reqs, queries, fullRecording, fullMode,
                         onUpdateLog>>
        ELSE /\ Len(reqs) < MaxReq
             /\ fullMode' = IF Len(modifiers) > 0
                            THEN [type |-> "Combination",
                                  modifiers |-> modifiers, key |-> key]
                            ELSE [type |-> "Consecutive", key |-> key,
                                  count |-> 3]
             /\ fullRecording' = FALSE
             /\ onUpdate(selectedMode, fullMode')
             /\ checkConflict(selectedMode)
  /\ UNCHANGED <<languageProps, backend, activeTab, mounted, selectedRecording,
                 conflictWarning, selectedMode, consecutiveCount, focus>>

\* the full-text button's onkeydown
handleFullKeydown(event) ==
  /\ mounted /\ focus = "full"
  /\ last' = IF fullRecording THEN "handleFullKeydown"
             ELSE "handleFullKeydown, idle"
  /\ LET modifiers == modifiersOf(event)
         key == toLowerCase(event.key)
     IN IF ~fullRecording \/ isPureModifier(key)
        THEN UNCHANGED <<appState, reqs, queries, fullRecording, fullMode,
                         onUpdateLog>>
        ELSE /\ Len(reqs) < MaxReq
             /\ fullMode' = IF Len(modifiers) > 0
                            THEN [type |-> "Combination",
                                  modifiers |-> modifiers, key |-> key]
                            ELSE [type |-> "Consecutive", key |-> key,
                                  count |-> consecutiveCount]
             /\ fullRecording' = FALSE
             /\ onUpdate(selectedMode, fullMode')
             /\ checkConflict(selectedMode)
  /\ UNCHANGED <<languageProps, backend, activeTab, mounted, selectedRecording,
                 conflictWarning, selectedMode, consecutiveCount, focus>>

\* variant: the click starts the recorder and the other button is not blurred
ClickSelected_noBlur ==
  /\ mounted
  /\ selectedRecording' = TRUE
  /\ focus' = "selected"
  /\ last' = IF focus = "full" /\ fullRecording
             THEN "click selected, full recording" ELSE "click selected"
  /\ UNCHANGED <<languageProps, storeVars, queries, activeTab, mounted,
                 conflictWarning, fullRecording, selectedMode, fullMode,
                 consecutiveCount, onUpdateLog>>

\* the selected-text button's onclick: record, and take the focus (which
\* blurs the other button if it had it)
ClickSelected ==
  /\ mounted
  /\ selectedRecording' = TRUE
  /\ focus' = "selected"
  /\ fullRecording' = IF focus = "full" THEN FALSE ELSE fullRecording
  /\ last' = IF focus = "full" /\ fullRecording
             THEN "click selected, full recording" ELSE "click selected"
  /\ UNCHANGED <<languageProps, storeVars, queries, activeTab, mounted, conflictWarning,
                 selectedMode, fullMode, consecutiveCount, onUpdateLog>>

\* the full-text button's onclick
ClickFull ==
  /\ mounted
  /\ fullRecording' = TRUE
  /\ focus' = "full"
  /\ selectedRecording' = IF focus = "selected" THEN FALSE
                          ELSE selectedRecording
  /\ last' = "click full"
  /\ UNCHANGED <<languageProps, storeVars, queries, activeTab, mounted, conflictWarning,
                 selectedMode, fullMode, consecutiveCount, onUpdateLog>>

\* an onblur that leaves the recording flags alone
Blur_keepsRecording ==
  /\ mounted /\ focus \in {"selected", "full"}
  /\ focus' = "none"
  /\ last' = IF focus = "selected" THEN "blur selected" ELSE "blur full"
  /\ UNCHANGED <<languageProps, storeVars, queries, activeTab, mounted, conflictWarning,
                 selectedRecording, fullRecording, selectedMode, fullMode,
                 consecutiveCount, onUpdateLog>>

\* the focused button's onblur: focus leaves the component's buttons
Blur ==
  /\ mounted /\ focus \in {"selected", "full"}
  /\ selectedRecording' = IF focus = "selected" THEN FALSE
                          ELSE selectedRecording
  /\ fullRecording' = IF focus = "full" THEN FALSE ELSE fullRecording
  /\ focus' = "none"
  /\ last' = IF focus = "selected" THEN "blur selected" ELSE "blur full"
  /\ UNCHANGED <<languageProps, storeVars, queries, activeTab, mounted, conflictWarning,
                 selectedMode, fullMode, consecutiveCount, onUpdateLog>>

\* variant: the hotkey is rebuilt on the default key
updateConsecutiveCount_rebuilds(count) ==
  IF fullMode.type = "Consecutive"
  THEN /\ Len(reqs) < MaxReq
       /\ fullMode' = [type |-> "Consecutive", key |-> " ", count |-> count]
       /\ onUpdate(selectedMode, fullMode')
  ELSE UNCHANGED <<fullMode, appState, reqs, onUpdateLog>>

\* updateConsecutiveCount, with consecutiveCount already bound to the field
updateConsecutiveCount(count) ==
  IF fullMode.type = "Consecutive"
  THEN /\ Len(reqs) < MaxReq
       /\ fullMode' = [fullMode EXCEPT !.count = count]
       /\ onUpdate(selectedMode, fullMode')
  ELSE UNCHANGED <<fullMode, appState, reqs, onUpdateLog>>

\* the count field: typing n (bind:value) and its onchange; the field is
\* rendered only while fullMode is Consecutive, and takes the focus
EditCount(n) ==
  /\ mounted /\ fullMode.type = "Consecutive"
  /\ n # consecutiveCount
  /\ consecutiveCount' = n
  /\ selectedRecording' = IF focus = "selected" THEN FALSE
                          ELSE selectedRecording
  /\ fullRecording' = IF focus = "full" THEN FALSE ELSE fullRecording
  /\ focus' = "count"
  /\ updateConsecutiveCount(n)
  /\ last' = "updateConsecutiveCount"
  /\ UNCHANGED <<languageProps, backend, queries, activeTab, mounted, conflictWarning,
                 selectedMode>>

\* checkConflict resumes after check_hotkey_conflicts resolved
CheckConflictResolved(q) ==
  /\ q \in DOMAIN queries
  /\ queries[q].status = "sent"
  /\ queries' = [queries EXCEPT ![q].status = "done"]
  /\ LET conflicts == SystemConflicts(queries[q].hotkey)
     IN conflictWarning' = IF queries[q].live /\ Len(conflicts) > 0
                           THEN ConflictMessage(conflicts)
                           ELSE conflictWarning
  /\ last' = "conflicts resolved"
  /\ UNCHANGED <<languageProps, storeVars, activeTab, mounted, selectedRecording,
                 fullRecording, selectedMode, fullMode, consecutiveCount,
                 focus, onUpdateLog>>

\* a catch that withdraws the banner when the query fails
CheckConflictRejected_clearsBanner(q) ==
  /\ q \in DOMAIN queries
  /\ queries[q].status = "sent"
  /\ queries' = [queries EXCEPT ![q].status = "done"]
  /\ conflictWarning' = null
  /\ last' = "conflicts rejected"
  /\ UNCHANGED <<languageProps, storeVars, activeTab, mounted, selectedRecording,
                 fullRecording, selectedMode, fullMode, consecutiveCount,
                 focus, onUpdateLog>>

\* checkConflict resumes after check_hotkey_conflicts rejected: the empty
\* catch
CheckConflictRejected(q) ==
  /\ q \in DOMAIN queries
  /\ queries[q].status = "sent"
  /\ queries' = [queries EXCEPT ![q].status = "done"]
  /\ last' = "conflicts rejected"
  /\ UNCHANGED <<languageProps, storeVars, activeTab, compVars, onUpdateLog>>

\* the backend answers a get_config and loadConfig resumes, in one step
LoadSettled(i, ok) ==
  /\ i \in DOMAIN reqs
  /\ reqs[i].kind = "get_config" /\ reqs[i].status = "sent"
  /\ appState' = IF ok THEN loadConfigResolved(appState, backend)
                 ELSE loadConfigRejected(appState)
  /\ reqs' = [reqs EXCEPT ![i].status = "done", ![i].ok = ok,
                          ![i].from = IF ok THEN LatestSave(reqs) ELSE 0,
                          ![i].config = IF ok THEN backend ELSE null,
                          ![i].error = IF ok THEN nullString
                                       ELSE CHOOSE e \in ErrMsgs : TRUE]
  /\ Render(appState', activeTab)
  /\ RenderLanguage(appState', activeTab, TRUE)
  /\ last' = IF ok THEN "load resolved" ELSE "load rejected"
  /\ UNCHANGED <<backend, activeTab, onUpdateLog>>

\* the backend answers a save_config and saveConfig resumes, in one step
SaveSettled(i, ok) ==
  /\ i \in DOMAIN reqs
  /\ reqs[i].kind = "save_config" /\ reqs[i].status = "sent"
  /\ LET e == IF ok THEN nullString ELSE CHOOSE m \in ErrMsgs : TRUE
     IN /\ appState' = IF ok THEN saveConfigResolved(appState, reqs[i].config)
                       ELSE saveConfigRejected(appState, e)
        /\ reqs' = [(IF ok THEN MarkLatest(reqs, i) ELSE reqs) EXCEPT
                                ![i].status = "done", ![i].ok = ok,
                                ![i].error = e,
                                ![i].ret = saveConfigReturn(ok, e)]
  /\ backend' = IF ok THEN reqs[i].config ELSE backend
  /\ Render(appState', activeTab)
  /\ RenderLanguage(appState', activeTab, ok)
  /\ last' = IF ok THEN "save resolved" ELSE "save rejected"
  /\ UNCHANGED <<activeTab, onUpdateLog>>

Capture ==
  \/ \E event \in KeyEvents : handleSelectedKeydown(event)
  \/ \E event \in KeyEvents : handleFullKeydown(event)
  \/ ClickSelected
  \/ ClickFull
  \/ Blur
  \/ \E n \in CountInputs : EditCount(n)

\* variant: the partial configuration takes the place of the configuration
updateConfig_replaces(state, partialConfig) ==
  [state EXCEPT !.config = IF state.config # null THEN partialConfig
                           ELSE null]

\* updateConfig: config: state.config ? {...state.config, ...partialConfig}
\* : null
updateConfig(state, partialConfig) ==
  [state EXCEPT !.config =
     IF state.config # null
     THEN [k \in DOMAIN state.config \cup DOMAIN partialConfig |->
             IF k \in DOMAIN partialConfig THEN partialConfig[k]
             ELSE state.config[k]]
     ELSE null]

\* partial configurations callers pass to updateConfig: a hotkey pair, and
\* the language settings together with the history limit
Partials ==
  { [ hotkey |-> [ selected_mode |-> [ type |-> "Combination",
                                       modifiers |-> <<"Control", "Alt">>,
                                       key |-> "k" ],
                   full_mode |-> [ type |-> "Consecutive", key |-> "k",
                                   count |-> 5 ] ] ],
    [ language |-> [ current_target |-> "zh-CN",
                     favorite_languages |->
                       << [code |-> "zh-CN", name |-> "Chinese"] >> ],
      history_limit |-> 100 ] }

\* any caller: appState.updateConfig(partialConfig)
UpdateConfig(partialConfig) ==
  /\ appState' = updateConfig(appState, partialConfig)
  /\ Render(appState', activeTab)
  /\ RenderLanguage(appState', activeTab, TRUE)
  /\ last' = "updateConfig"
  /\ UNCHANGED <<backend, reqs, activeTab, onUpdateLog>>

\* ---------------------------------------------- LanguageSettings.svelte
\* presetLanguages (names transliterated)
presetLanguages ==
  << [code |-> "en-US", name |-> "English"],
     [code |-> "zh-CN", name |-> "Chinese"],
     [code |-> "zh-TW", name |-> "Traditional Chinese"],
     [code |-> "ja-JP", name |-> "Japanese"],
     [code |-> "ko-KR", name |-> "Korean"],
     [code |-> "fr-FR", name |-> "Francais"],
     [code |-> "de-DE", name |-> "Deutsch"],
     [code |-> "es-ES", name |-> "Espanol"],
     [code |-> "it-IT", name |-> "Italiano"],
     [code |-> "pt-BR", name |-> "Portugues"],
     [code |-> "ru-RU", name |-> "Russkij"],
     [code |-> "ar-SA", name |-> "Arabic"],
     [code |-> "th-TH", name |-> "Thai"],
     [code |-> "vi-VN", name |-> "Tieng Viet"] >>

\* the codes of a list of languages
Codes(languages) == {languages[k].code : k \in DOMAIN languages}

\* getAvailablePresets: the presets whose code is not among the favorites
getAvailablePresets(favorites) ==
  SelectSeq(presetLanguages, LAMBDA p : p.code \notin Codes(favorites))

\* the presets whose buttons are pressed; the (code, name) pairs typed into
\* the custom-language dialog
PresetInputs == {"en-US", "zh-TW"}
\* the favorites whose remove button is pressed or which are picked as target
LanguageInputs == {"en-US", "zh-CN", "yue"}
CustomInputs ==
  { <<"yue", "Cantonese">>, <<"en-US", "American">>, <<"", "Klingon">> }

\* Settings.svelte: updateLanguageConfig, up to the await inside saveConfig
updateLanguageConfig(currentTarget, favorites, historyLimit) ==
  IF appState.config # null
  THEN saveConfig([appState.config EXCEPT
                     !.language = [current_target |-> currentTarget,
                                   favorite_languages |-> favorites],
                     !.history_limit = historyLimit], "language")
  ELSE UNCHANGED <<appState, reqs>>

\* updateAndSave, with the component's props as they are when it is called
updateAndSave(props) ==
  updateLanguageConfig(props.languageConfig.current_target,
                       props.languageConfig.favorite_languages,
                       props.historyLimit)

\* variant: the language is appended without looking for its code
addLanguage_always(lang) ==
  /\ Len(reqs) < MaxReq
  /\ languageProps' =
       [languageProps EXCEPT !.languageConfig.favorite_languages =
                                Append(@, lang)]
  /\ updateAndSave(languageProps')

\* addLanguage(lang)
addLanguage(lang) ==
  IF lang.code \in Codes(languageProps.languageConfig.favorite_languages)
  THEN UNCHANGED <<languageProps, appState, reqs>>
  ELSE /\ Len(reqs) < MaxReq
       /\ languageProps' =
            [languageProps EXCEPT !.languageConfig.favorite_languages =
                                     Append(@, lang)]
       /\ updateAndSave(languageProps')

\* the onclick of the button of the available preset with this code:
\* addLanguage(preset)
ClickPreset(code) ==
  /\ languageProps # null
  /\ LET available == getAvailablePresets(
                        languageProps.languageConfig.favorite_languages)
     IN \E k \in DOMAIN available :
          available[k].code = code /\ addLanguage(available[k])
  /\ last' = "addLanguage"
  /\ UNCHANGED <<backend, queries, activeTab, compVars, onUpdateLog>>

\* the dialog's add button: addCustomLanguage with the two fields as typed
addCustomLanguage(newLangCode, newLangName) ==
  /\ languageProps # null
  /\ IF newLangCode # "" /\ newLangName # ""
     THEN addLanguage([code |-> newLangCode, name |-> newLangName])
     ELSE UNCHANGED <<languageProps, appState, reqs>>
  /\ last' = IF newLangCode # "" /\ newLangName # ""
             THEN "addCustomLanguage" ELSE "addCustomLanguage, field empty"
  /\ UNCHANGED <<backend, queries, activeTab, compVars, onUpdateLog>>

\* variant: the target is left alone when its language is removed
removeLanguage_keepsTarget(code) ==
  /\ languageProps # null
  /\ code \in Codes(languageProps.languageConfig.favorite_languages)
  /\ Len(reqs) < MaxReq
  /\ languageProps' =
       [languageProps EXCEPT !.languageConfig.favorite_languages =
                                SelectSeq(@, LAMBDA l : l.code # code)]
  /\ updateAndSave(languageProps')
  /\ last' = "removeLanguage"
  /\ UNCHANGED <<backend, queries, activeTab, compVars, onUpdateLog>>

\* a list entry's remove button: removeLanguage(code)
removeLanguage(code) ==
  /\ languageProps # null
  /\ code \in Codes(languageProps.languageConfig.favorite_languages)
  /\ Len(reqs) < MaxReq
  /\ LET favorites ==
           SelectSeq(languageProps.languageConfig.favorite_languages,
                     LAMBDA l : l.code # code)
         target == languageProps.languageConfig.current_target
     IN languageProps' =
          [languageProps EXCEPT
             !.languageConfig.favorite_languages = favorites,
             !.languageConfig.current_target =
                IF target = code /\ Len(favorites) > 0
                THEN favorites[1].code ELSE target]
  /\ updateAndSave(languageProps')
  /\ last' = "removeLanguage"
  /\ UNCHANGED <<backend, queries, activeTab, compVars, onUpdateLog>>

\* the target selector of the component: bind:value, then handleTargetChange
handleTargetChange(code) ==
  /\ languageProps # null
  /\ code \in Codes(languageProps.languageConfig.favorite_languages)
  /\ code # languageProps.languageConfig.current_target
  /\ Len(reqs) < MaxReq
  /\ languageProps' =
       [languageProps EXCEPT !.languageConfig.current_target = code]
  /\ updateAndSave(languageProps')
  /\ last' = "handleTargetChange"
  /\ UNCHANGED <<backend, queries, activeTab, compVars, onUpdateLog>>

\* the codes offered by the header's target selector
HeaderOptions ==
  IF appState.config = null THEN {}
  ELSE Codes(appState.config.language.favorite_languages)

\* variant: switching the flag also dismisses the error
setEnabled_clearsError(state, enabled) ==
  [state EXCEPT !.isEnabled = enabled, !.error = nullString]

\* setEnabled: update(state => ({...state, isEnabled: enabled}))
setEnabled(state, enabled) == [state EXCEPT !.isEnabled = enabled]

\* any caller: appState.setEnabled(enabled)
SetEnabled(enabled) ==
  /\ appState' = setEnabled(appState, enabled)
  /\ Render(appState', activeTab)
  /\ RenderLanguage(appState', activeTab, FALSE)
  /\ last' = "setEnabled"
  /\ UNCHANGED <<backend, reqs, activeTab, onUpdateLog>>

\* --------------------------------------- HotkeySettings.svelte: display
\* variant: the modifiers are shown under their event names
modifierMap_identity(m) == m

\* modifierMap[m] ?? m
modifierMap(m) ==
  CASE m = "Meta" -> "Cmd"
    [] m = "Control" -> "Ctrl"
    [] m = "Alt" -> "Option"
    [] m = "Shift" -> "Shift"
    [] OTHER -> m

\* String.prototype.toUpperCase over the keys in use
toUpperCase(k) ==
  CASE k = "t" -> "T"
    [] k = "k" -> "K"
    [] OTHER -> k

\* Array.prototype.join
RECURSIVE join(_, _)
join(parts, separator) ==
  IF parts = <<>> THEN ""
  ELSE IF Len(parts) = 1 THEN parts[1]
  ELSE parts[1] \o separator \o join(Tail(parts), separator)

\* formatHotkey (the multiplication sign is written x)
formatHotkey(hotkey) ==
  IF hotkey.type = "Combination"
  THEN LET modifiers == IF "modifiers" \in DOMAIN hotkey
                        THEN hotkey.modifiers ELSE <<>>
           mods == [k \in DOMAIN modifiers |-> modifierMap(modifiers[k])]
       IN join(mods \o <<toUpperCase(hotkey.key)>>, " + ")
  ELSE LET keyName == IF hotkey.key = " " THEN "Space"
                      ELSE toUpperCase(hotkey.key)
           count == IF "count" \in DOMAIN hotkey THEN hotkey.count ELSE 3
       IN keyName \o " x " \o ToString(count)

\* the text on the two buttons: the prompt while Recording, else the hotkey
SelectedLabel ==
  IF selectedRecording THEN "press the hotkey..." ELSE formatHotkey(selectedMode)

FullLabel ==
  IF fullRecording THEN "press the hotkey..." ELSE formatHotkey(fullMode)

\* the store and the backend alone, under any caller
NextStore ==
  \/ CallLoadConfig
  \/ \E c \in Candidates : CallSaveConfig(c)
  \/ \E i \in 1..MaxReq : BackendGetConfigOk(i)
  \/ \E i \in 1..MaxReq : BackendSaveConfigOk(i)
  \/ \E i \in 1..MaxReq, e \in ErrMsgs : BackendFail(i, e)
  \/ \E i \in 1..MaxReq : LoadConfigDone(i)
  \/ \E i \in 1..MaxReq : SaveConfigDone(i)

SpecStore == Init /\ [][NextStore]_vars

\* the backend answers a pending command, with success or with a failure
BackendAnswers ==
  \E i \in 1..MaxReq :
    \/ BackendGetConfigOk(i)
    \/ BackendSaveConfigOk(i)
    \/ \E e \in ErrMsgs : BackendFail(i, e)

\* the event loop resumes a call whose command has been answered
CallResumes ==
  \E i \in 1..MaxReq : LoadConfigDone(i) \/ SaveConfigDone(i)

\* The store and the backend with every pending command answered in the end
\* and every answered call resumed in the end; callers call when they like,
\* and what they save is of no matter to the progress of the calls.
NextStoreLive ==
  \/ CallLoadConfig
  \/ CallSaveConfig([defaultConfig EXCEPT !.language.current_target = "zh-CN"])
  \/ \E i \in 1..MaxReq : BackendGetConfigOk(i)
  \/ \E i \in 1..MaxReq : BackendSaveConfigOk(i)
  \/ \E i \in 1..MaxReq, e \in ErrMsgs : BackendFail(i, e)
  \/ \E i \in 1..MaxReq : LoadConfigDone(i)
  \/ \E i \in 1..MaxReq : SaveConfigDone(i)

SpecStoreLive ==
  /\ Init /\ [][NextStoreLive]_vars
  /\ WF_vars(BackendAnswers)
  /\ WF_vars(CallResumes)

\* The application with the hotkey tab opened and the capture component in
\* use.  Nothing the front end does between a command's execution and the
\* landing of its answer reads the backend, so the two are taken as one
\* step here; conflict queries are issued and stay in flight.
Next ==
  \/ onMount
  \/ SetActiveTab("hotkey")
  \/ \E i \in 1..MaxReq, ok \in BOOLEAN : LoadSettled(i, ok)
  \/ \E i \in 1..MaxReq, ok \in BOOLEAN : SaveSettled(i, ok)
  \/ Capture

Spec == Init /\ [][Next]_vars

\* The capture component with its conflict queries answered: the answers of
\* check_hotkey_conflicts land in any order, while the save_config requests
\* of the commits are still in flight.
NextConflict ==
  \/ onMount
  \/ SetActiveTab("hotkey")
  \/ \E i \in 1..MaxReq, ok \in BOOLEAN : LoadSettled(i, ok)
  \/ Capture
  \/ \E q \in 1..MaxReq : CheckConflictResolved(q)
  \/ \E q \in 1..MaxReq : CheckConflictRejected(q)

SpecConflict == Init /\ [][NextConflict]_vars

\* The store with its local mutators: loads and saves, answered in one step
\* each, and updateConfig and setEnabled at any moment in between.
NextLocal ==
  \/ CallLoadConfig
  \/ \E c \in Candidates : CallSaveConfig(c)
  \/ \E i \in 1..MaxReq, ok \in BOOLEAN : LoadSettled(i, ok)
  \/ \E i \in 1..MaxReq, ok \in BOOLEAN : SaveSettled(i, ok)
  \/ \E p \in Partials : UpdateConfig(p)
  \/ \E enabled \in BOOLEAN : SetEnabled(enabled)

SpecLocal == Init /\ [][NextLocal]_vars

\* configurations found persisted at start-up: the default one, and one
\* whose favorites were reduced to English in an earlier session
PersistedLanguage ==
  { defaultConfig,
    [defaultConfig EXCEPT !.language.favorite_languages =
                             << [code |-> "en-US", name |-> "English"] >>] }

InitLanguage ==
  /\ appState = initialAppState
  /\ backend \in PersistedLanguage
  /\ reqs = <<>>
  /\ queries = <<>>
  /\ activeTab = "llm"
  /\ mounted = FALSE
  /\ selectedRecording = FALSE
  /\ fullRecording = FALSE
  /\ conflictWarning = null
  /\ selectedMode = null
  /\ fullMode = null
  /\ consecutiveCount = 3
  /\ focus = "none"
  /\ languageProps = null
  /\ onUpdateLog = <<>>
  /\ last = "init"

\* The application with the language tab opened: favorites are added and
\* removed and the target is changed, here and in the header, while the
\* saves are answered in any order.
NextLanguage ==
  \/ onMount
  \/ SetActiveTab("language")
  \/ \E i \in 1..MaxReq, ok \in BOOLEAN : LoadSettled(i, ok)
  \/ \E i \in 1..MaxReq, ok \in BOOLEAN : SaveSettled(i, ok)
  \/ \E code \in PresetInputs : ClickPreset(code)
  \/ \E c \in CustomInputs : addCustomLanguage(c[1], c[2])
  \/ \E code \in LanguageInputs : removeLanguage(code)
  \/ \E code \in LanguageInputs : handleTargetChange(code)
  \/ \E t \in TargetInputs \cap HeaderOptions : handleTargetLanguageChange(t)

SpecLanguage == InitLanguage /\ [][NextLanguage]_vars

\* hotkey values a persisted configuration may hold in either slot: with and
\* without the optional fields, and with a modifier outside the naming table
HotkeyValues ==
  { [type |-> "Combination", modifiers |-> <<"Meta">>, key |-> "t"],
    [type |-> "Combination", modifiers |-> <<"Control", "Alt", "Shift">>,
     key |-> "k"],
    [type |-> "Combination", modifiers |-> <<"Hyper">>, key |-> "k"],
    [type |-> "Combination", key |-> "t"],
    [type |-> "Consecutive", key |-> " ", count |-> 3],
    [type |-> "Consecutive", key |-> "k", count |-> 5],
    [type |-> "Consecutive", key |-> "k"] }

\* the hotkey tab showing a configuration that has just been loaded
InitFormat ==
  \E s, f \in HotkeyValues :
    LET loaded == [defaultConfig EXCEPT
                     !.hotkey = [selected_mode |-> s, full_mode |-> f]]
    IN /\ appState = [initialAppState EXCEPT !.config = loaded]
       /\ backend = loaded
       /\ reqs = << [Request("get_config", null, "load") EXCEPT
                       !.status = "done", !.ok = TRUE, !.config = loaded] >>
       /\ queries = <<>>
       /\ activeTab = "hotkey"
       /\ mounted = TRUE
       /\ selectedRecording = FALSE
       /\ fullRecording = FALSE
       /\ conflictWarning = null
       /\ selectedMode = s
       /\ fullMode = f
       /\ consecutiveCount = initConsecutiveCount(f)
       /\ focus = "none"
       /\ languageProps = null
       /\ onUpdateLog = <<>>
       /\ last = "load resolved"

\* The buttons of the component shown with any pair of hotkeys, their
\* recorders started and abandoned.
NextFormat ==
  \/ ClickSelected
  \/ ClickFull
  \/ Blur

SpecFormat == InitFormat /\ [][NextFormat]_vars

\* The hotkey tab in use while the header's target selector is used too:
\* hotkey commits and language changes are saved through the same store.
NextCommit ==
  \/ onMount
  \/ SetActiveTab("hotkey")
  \/ \E i \in 1..MaxReq, ok \in BOOLEAN : LoadSettled(i, ok)
  \/ \E i \in 1..MaxReq, ok \in BOOLEAN : SaveSettled(i, ok)
  \/ \E t \in TargetInputs \cap HeaderOptions : handleTargetLanguageChange(t)
  \/ ClickSelected
  \/ \E event \in KeyEvents : handleSelectedKeydown(event)
  \/ \E n \in CountInputs : EditCount(n)

SpecCommit == Init /\ [][NextCommit]_vars

\* ======================================================== configuration
\* store: properties of loadConfig / saveConfig under SpecStore

\* request i is a save_config whose answer lands in this step
SaveLands(i) ==
  /\ reqs[i].kind = "save_config"
  /\ reqs[i].status = "answered"
  /\ reqs'[i].status = "done"

\* request i is a get_config whose answer lands in this step
LoadLands(i) ==
  /\ reqs[i].kind = "get_config"
  /\ reqs[i].status = "answered"
  /\ reqs'[i].status = "done"

\* C1: when a save_config issued by saveConfig(candidate) fails, the store's
\* config right after the failure is the config right before it, the
\* store's error is the failure message, and saveConfig returns
\* {success: false, error} with that message -- whatever else is in flight.
C1_FailedSaveKeepsConfig ==
  [][\A i \in DOMAIN reqs :
       (SaveLands(i) /\ ~reqs[i].ok) =>
         /\ appState'.config = appState.config
         /\ appState'.error = reqs[i].error
         /\ reqs[i].error \in ErrMsgs
         /\ reqs'[i].ret = [success |-> FALSE, error |-> reqs[i].error]]_vars

\* a save has just failed: the store shows its message and still holds a
\* configuration that is not the rejected candidate
C1_Witness ==
  /\ last = "save rejected"
  /\ appState.config # null
  /\ \E i \in DOMAIN reqs :
       /\ reqs[i].kind = "save_config" /\ reqs[i].status = "done"
       /\ ~reqs[i].ok
       /\ reqs[i].ret = [success |-> FALSE, error |-> appState.error]
       /\ reqs[i].config # appState.config
  /\ \E j \in DOMAIN reqs : reqs[j].status # "done"

\* C2: when a save_config issued by saveConfig(candidate) succeeds, right
\* after that completion the store's config is the candidate and the store's
\* error is none -- also when another save failed while this one was in
\* flight.
C2_SucceededSaveClearsError ==
  [][\A i \in DOMAIN reqs :
       (SaveLands(i) /\ reqs[i].ok) =>
         /\ appState'.config = reqs[i].config
         /\ appState'.error = nullString]_vars

\* C3 as stated: when a get_config issued by loadConfig fails, the config
\* becomes the built-in default, the error is none and isLoading is false.
C3_FailedLoadErrorNone ==
  [][\A i \in DOMAIN reqs :
       (LoadLands(i) /\ ~reqs[i].ok) =>
         /\ appState'.config = defaultConfig
         /\ appState'.error = nullString
         /\ appState'.isLoading = FALSE]_vars

\* C3 amended: when a get_config issued by loadConfig fails, the config
\* becomes the built-in default whatever was held before, isLoading becomes
\* false, and the failure itself records no error: the store's error is
\* what it was right before the failure.
C3_FailedLoadFallsBack ==
  [][\A i \in DOMAIN reqs :
       (LoadLands(i) /\ ~reqs[i].ok) =>
         /\ appState'.config = defaultConfig
         /\ appState'.error = appState.error
         /\ appState'.isLoading = FALSE
         /\ reqs'[i].ret = null]_vars

\* a load has just failed after a save had installed another configuration:
\* the store is back on the default
C3_Witness ==
  /\ last = "load rejected"
  /\ appState.config = defaultConfig
  /\ appState.isLoading = FALSE
  /\ \E i \in DOMAIN reqs :
       /\ reqs[i].kind = "save_config" /\ reqs[i].status = "done"
       /\ reqs[i].ok /\ reqs[i].config # defaultConfig
  /\ \A i \in DOMAIN reqs :
       reqs[i].kind = "get_config" => (reqs[i].status = "done" /\ ~reqs[i].ok)

\* C4: of two overlapping saveConfig calls that both succeed, the one whose
\* response lands last decides the in-memory config, whichever was issued
\* first.
C4_LastResponseWins ==
  [][\A i, j \in DOMAIN reqs :
       ( /\ i # j
         /\ reqs[j].kind = "save_config" /\ reqs[j].status = "done"
         /\ reqs[j].ok
         /\ SaveLands(i) /\ reqs[i].ok ) =>
         appState'.config = reqs[i].config]_vars

\* two saves with different candidates, both succeeded, the one issued first
\* landed last (the later one was issued and completed while it was in
\* flight) and its candidate is in memory
C4_Witness ==
  /\ last = "save resolved"
  /\ Len(reqs) = 2
  /\ \A i \in DOMAIN reqs :
       reqs[i].kind = "save_config" /\ reqs[i].status = "done" /\ reqs[i].ok
  /\ reqs[1].config # reqs[2].config
  /\ appState.config = reqs[1].config

\* ============================================================= capture:
\* properties of the HotkeySettings handlers under Spec

\* no modifier is held at the key-down
NoModifierHeld(e) ==
  ~e.metaKey /\ ~e.ctrlKey /\ ~e.altKey /\ ~e.shiftKey

\* the key pressed is itself a modifier
IsModifierKey(e) == e.key \in {"Meta", "Control", "Alt", "Shift"}

\* this step is the selected-text slot, Recording, handling the key-down e
\* of a non-modifier key
SelectedCapture(e) ==
  handleSelectedKeydown(e) /\ selectedRecording /\ ~IsModifierKey(e)

\* this step is the full-text slot, Recording, handling the key-down e of a
\* non-modifier key
FullCapture(e) ==
  handleFullKeydown(e) /\ fullRecording /\ ~IsModifierKey(e)

\* this step calls onUpdate once
OneUpdate == Len(onUpdateLog') = Len(onUpdateLog) + 1

\* a hotkey that is a Combination with at least one modifier
HasModifier(hotkey) ==
  hotkey.type = "Combination" /\ Len(hotkey.modifiers) > 0

\* C5: capture in the full-text slot never rejects a candidate; capture in
\* the selected-text slot rejects it if and only if no modifier was held at
\* the non-modifier key-down.
C5_Validation ==
  [][\A e \in KeyEvents :
       /\ SelectedCapture(e) =>
            /\ (onUpdateLog' = onUpdateLog /\ selectedMode' = selectedMode)
                 <=> NoModifierHeld(e)
            /\ OneUpdate <=> ~NoModifierHeld(e)
       /\ FullCapture(e) =>
            /\ OneUpdate
            /\ onUpdateLog'[Len(onUpdateLog')].full = fullMode'
            /\ fullMode'.key = toLowerCase(e.key)
            /\ conflictWarning' = conflictWarning]_vars

\* the selected-text slot has rejected a key pressed without modifier (its
\* message is still shown) and the full-text slot has then accepted one
C5_Witness ==
  /\ last = "handleFullKeydown"
  /\ conflictWarning # null /\ conflictWarning.kind = "missing modifier"
  /\ ~fullRecording
  /\ fullMode.type = "Consecutive"
  /\ Len(onUpdateLog) = 1
  /\ onUpdateLog[1].full = fullMode
  /\ selectedMode = defaultConfig.hotkey.selected_mode

\* C6: in every reachable state the selected-text hotkey, in the component
\* and in the store's in-memory config, is a Combination with a non-empty
\* modifier set.
C6_SelectedHasModifier ==
  /\ mounted => HasModifier(selectedMode)
  /\ appState.config # null =>
       HasModifier(appState.config.hotkey.selected_mode)

\* a capture has replaced the default selected-text hotkey and its save has
\* landed in the store
C6_Witness ==
  /\ mounted
  /\ selectedMode # defaultConfig.hotkey.selected_mode
  /\ appState.config # null
  /\ appState.config.hotkey.selected_mode = selectedMode
  /\ Len(selectedMode.modifiers) = 3

\* C7: a non-modifier key-down with no modifier held, while the
\* selected-text slot is Recording, keeps the selected hotkey, calls no
\* onUpdate, issues no save_config and no conflict query, and surfaces the
\* missing-modifier message.
C7_MissingModifierCommitsNothing ==
  [][\A e \in KeyEvents :
       (SelectedCapture(e) /\ NoModifierHeld(e)) =>
         /\ selectedMode' = selectedMode
         /\ fullMode' = fullMode
         /\ onUpdateLog' = onUpdateLog
         /\ reqs' = reqs
         /\ appState' = appState
         /\ queries' = queries
         /\ conflictWarning' # null
         /\ conflictWarning'.kind = "missing modifier"]_vars

\* the selected-text slot has just refused a key: the message is up and no
\* save or query has ever been issued
C7_Witness ==
  /\ last = "handleSelectedKeydown"
  /\ conflictWarning # null /\ conflictWarning.kind = "missing modifier"
  /\ selectedMode = defaultConfig.hotkey.selected_mode
  /\ onUpdateLog = <<>>
  /\ queries = <<>>
  /\ Len(reqs) = 1

\* C8: in the missing-modifier case the selected-text capture session is
\* Idle right after the event.
C8_MissingModifierEndsRecording ==
  [][\A e \in KeyEvents :
       (SelectedCapture(e) /\ NoModifierHeld(e)) => ~selectedRecording']_vars

\* C9: a non-modifier key-down that passes validation in a Recording slot
\* leaves that slot Idle with the new candidate as its hotkey, and calls
\* onUpdate exactly once, with the pair (selected, full) that contains the
\* candidate.
C9_CommitEndsCycle ==
  [][\A e \in KeyEvents :
       /\ (SelectedCapture(e) /\ ~NoModifierHeld(e)) =>
            /\ ~selectedRecording'
            /\ selectedMode' = [type |-> "Combination",
                                modifiers |-> modifiersOf(e),
                                key |-> toLowerCase(e.key)]
            /\ OneUpdate
            /\ onUpdateLog'[Len(onUpdateLog')] =
                 [selected |-> selectedMode', full |-> fullMode]
            /\ fullMode' = fullMode
       /\ FullCapture(e) =>
            /\ ~fullRecording'
            /\ fullMode'.key = toLowerCase(e.key)
            /\ fullMode'.type =
                 IF NoModifierHeld(e) THEN "Consecutive" ELSE "Combination"
            /\ OneUpdate
            /\ onUpdateLog'[Len(onUpdateLog')] =
                 [selected |-> selectedMode, full |-> fullMode']
            /\ selectedMode' = selectedMode]_vars

\* both slots have committed a new hotkey, the selected-text one last: both
\* are Idle and the last onUpdate carried the pair now held
C9_Witness ==
  /\ last = "handleSelectedKeydown"
  /\ ~selectedRecording /\ ~fullRecording
  /\ Len(onUpdateLog) = 2
  /\ onUpdateLog[2] = [selected |-> selectedMode, full |-> fullMode]
  /\ onUpdateLog[1].selected # selectedMode
  /\ onUpdateLog[1].full = fullMode
  /\ fullMode # defaultConfig.hotkey.full_mode

\* C10: a check_hotkey_conflicts query is issued only by a successful commit
\* in the selected-text slot; a commit in the full-text slot and a count
\* edit issue none.
C10_QueryOnlyFromSelectedCommit ==
  [][queries' # queries =>
       /\ \E e \in KeyEvents : SelectedCapture(e) /\ ~NoModifierHeld(e)
       /\ \A e \in KeyEvents : ~handleFullKeydown(e)
       /\ \A n \in CountInputs : ~EditCount(n)]_vars

\* the key-down of Cmd(Meta)+T
MetaT == KeyboardEvent({"Meta"}, "t")

\* C11: Meta+T while the selected-text slot is Recording commits
\* Combination{modifiers: [Meta], key: "t"} as the selected hotkey and issues
\* exactly one check_hotkey_conflicts query, whose argument is that value.
C11_MetaTCommitsAndQueriesOnce ==
  [][SelectedCapture(MetaT) =>
       /\ selectedMode' = [type |-> "Combination", modifiers |-> <<"Meta">>,
                           key |-> "t"]
       /\ Len(queries') = Len(queries) + 1
       /\ \A q \in DOMAIN queries : queries'[q] = queries[q]
       /\ queries'[Len(queries')].hotkey =
            [type |-> "Combination", modifiers |-> <<"Meta">>, key |-> "t"]
       /\ queries'[Len(queries')].status = "sent"]_vars

\* the selected-text slot held another combination and has just committed
\* Meta+T: the second query, still in flight, is for Meta+T
C11_Witness ==
  /\ last = "handleSelectedKeydown"
  /\ ~selectedRecording
  /\ selectedMode = [type |-> "Combination", modifiers |-> <<"Meta">>,
                     key |-> "t"]
  /\ Len(onUpdateLog) = 2 /\ Len(queries) = 2
  /\ onUpdateLog[1].selected # selectedMode
  /\ onUpdateLog[2].selected = selectedMode
  /\ queries[2].hotkey = selectedMode /\ queries[2].status = "sent"


\* C12: a check_hotkey_conflicts query that fails changes nothing but its own
\* completion: the committed selected and full hotkeys, the store's state,
\* every request in flight, the persisted configuration, the conflict banner
\* and the record of commits are the same after the failure as before it.
C12_FailedQueryChangesNothing ==
  [][\A q \in 1..MaxReq + 1 :
       CheckConflictRejected(q) =>
         /\ selectedMode' = selectedMode /\ fullMode' = fullMode
         /\ appState' = appState /\ reqs' = reqs /\ backend' = backend
         /\ conflictWarning' = conflictWarning
         /\ selectedRecording' = selectedRecording
         /\ onUpdateLog' = onUpdateLog]_vars

\* a query has failed after a commit whose save is still in flight, while the
\* banner of an earlier, answered query is showing
C12_Witness ==
  /\ last = "conflicts rejected"
  /\ conflictWarning # null
  /\ Len(queries) >= 2
  /\ queries[Len(queries)].status = "done"
  /\ queries[Len(queries)].hotkey = selectedMode
  /\ onUpdateLog # <<>>
  /\ onUpdateLog[Len(onUpdateLog)].selected = selectedMode
  /\ \E i \in DOMAIN reqs : reqs[i].kind = "save_config" /\ reqs[i].status = "sent"


\* C13: when the button of a slot that is Recording loses the focus, the slot
\* is Idle afterwards and nothing is committed: both hotkeys, the store, the
\* requests, the conflict queries and the record of onUpdate calls are
\* unchanged.
C13_BlurAbortsRecording ==
  [][/\ (Blur /\ focus = "selected" /\ selectedRecording)
          => ~selectedRecording'
     /\ (Blur /\ focus = "full" /\ fullRecording) => ~fullRecording'
     /\ Blur => /\ selectedMode' = selectedMode /\ fullMode' = fullMode
                 /\ appState' = appState /\ reqs' = reqs
                 /\ backend' = backend /\ queries' = queries
                 /\ onUpdateLog' = onUpdateLog]_vars

\* the selected-text button lost the focus in a session in which nothing was
\* ever committed, so the slot had been Recording since its click
C13_Witness ==
  /\ last = "blur selected"
  /\ onUpdateLog = <<>> /\ queries = <<>>
  /\ ~selectedRecording
  /\ focus = "none"
  /\ selectedMode = defaultConfig.hotkey.selected_mode


\* C14: while a slot is Recording, a key-down whose key is itself a modifier
\* leaves the slot Recording and changes no hotkey, issues no save and no
\* conflict query, calls onUpdate not at all and leaves the banner alone --
\* at every such event, hence for any number of them in a row.
C14_ModifierKeySwallowed ==
  [][\A e \in KeyEvents :
       IsModifierKey(e) =>
         /\ (handleSelectedKeydown(e) /\ selectedRecording)
              => selectedRecording'
         /\ (handleFullKeydown(e) /\ fullRecording) => fullRecording'
         /\ (handleSelectedKeydown(e) \/ handleFullKeydown(e))
              => /\ selectedMode' = selectedMode /\ fullMode' = fullMode
                 /\ appState' = appState /\ reqs' = reqs
                 /\ queries' = queries /\ onUpdateLog' = onUpdateLog
                 /\ conflictWarning' = conflictWarning]_vars

\* the selected-text slot handled a key-down and is still Recording with no
\* banner and no commit so far: the key was a modifier
C14_Witness ==
  /\ last = "handleSelectedKeydown"
  /\ selectedRecording
  /\ focus = "selected"
  /\ conflictWarning = null
  /\ onUpdateLog = <<>> /\ queries = <<>>


\* the modifiers held at the key-down, by the event's flags
HeldModifiers(e) ==
  {m \in {"Meta", "Control", "Alt", "Shift"} :
     \/ m = "Meta" /\ e.metaKey
     \/ m = "Control" /\ e.ctrlKey
     \/ m = "Alt" /\ e.altKey
     \/ m = "Shift" /\ e.shiftKey}

\* C15: in the full-text slot, a non-modifier key-down while Recording
\* commits (one onUpdate carrying the new full hotkey) a Combination whose
\* modifiers are exactly the held ones, each once, when a modifier is held;
\* otherwise a Consecutive hotkey on that key whose count is the slot's
\* repeat count before the key-down -- the count of the previous full
\* hotkey when that was Consecutive.  Space with no modifier and count 3
\* commits Consecutive{key: " ", count: 3}.
C15_FullSlotCandidate ==
  [][\A e \in KeyEvents :
       FullCapture(e) =>
         /\ OneUpdate
         /\ onUpdateLog'[Len(onUpdateLog')].full = fullMode'
         /\ IF HeldModifiers(e) # {}
            THEN /\ fullMode'.type = "Combination"
                 /\ {fullMode'.modifiers[k] : k \in DOMAIN fullMode'.modifiers}
                      = HeldModifiers(e)
                 /\ Len(fullMode'.modifiers) = Cardinality(HeldModifiers(e))
            ELSE /\ fullMode'.type = "Consecutive"
                 /\ fullMode'.count = consecutiveCount
                 /\ fullMode.type = "Consecutive"
                      => fullMode'.count = fullMode.count
                 /\ (e.key = " " /\ consecutiveCount = 3)
                      => fullMode' = [type |-> "Consecutive", key |-> " ",
                                      count |-> 3]]_vars

\* the full-text slot committed Control+Alt+Shift+K and then, recorded again,
\* Space with no modifier at count 3
C15_Witness ==
  /\ last = "handleFullKeydown"
  /\ ~fullRecording
  /\ Len(onUpdateLog) = 2
  /\ onUpdateLog[1].full = [type |-> "Combination",
                            modifiers |-> <<"Control", "Alt", "Shift">>,
                            key |-> "k"]
  /\ onUpdateLog[2].full = [type |-> "Consecutive", key |-> " ", count |-> 3]
  /\ fullMode = onUpdateLog[2].full


\* C16: in every reachable state, a Consecutive hotkey held by the capture
\* component, and one in a configuration handed to saveConfig, has a count
\* in [2,10].
C16_CountInRange ==
  /\ (mounted /\ fullMode.type = "Consecutive") => fullMode.count \in 2..10
  /\ \A i \in DOMAIN reqs :
       (reqs[i].kind = "save_config"
        /\ reqs[i].config.hotkey.full_mode.type = "Consecutive")
         => reqs[i].config.hotkey.full_mode.count \in 2..10


\* C17: an edit of the repeat count while the full-text hotkey is Consecutive
\* re-commits at once -- onUpdate is invoked exactly once in the step of the
\* edit, with no slot Recording -- with a full hotkey of the same type and
\* key as before and the edited value as count; the selected hotkey is
\* unchanged and is the one passed along.
C17_CountEditRecommits ==
  [][\A n \in CountInputs :
       (EditCount(n) /\ fullMode.type = "Consecutive") =>
         /\ OneUpdate
         /\ fullMode'.type = fullMode.type
         /\ fullMode'.key = fullMode.key
         /\ fullMode'.count = n
         /\ onUpdateLog'[Len(onUpdateLog')].full = fullMode'
         /\ selectedMode' = selectedMode
         /\ onUpdateLog'[Len(onUpdateLog')].selected = selectedMode
         /\ ~selectedRecording' /\ ~fullRecording'
         /\ queries' = queries]_vars

\* the full-text slot committed Consecutive on K and its count was then edited
\* to 5
C17_Witness ==
  /\ last = "updateConsecutiveCount"
  /\ Len(onUpdateLog) = 2
  /\ onUpdateLog[1].full = [type |-> "Consecutive", key |-> "k", count |-> 3]
  /\ onUpdateLog[2].full = [type |-> "Consecutive", key |-> "k", count |-> 5]
  /\ fullMode = onUpdateLog[2].full
  /\ consecutiveCount = 5


ResaveAlone(i) ==
  /\ i \in DOMAIN reqs
  /\ reqs[i].kind = "save_config"
  /\ reqs[i].prior # null
  /\ Len(reqs) = i

\* C19 (as stated): saveConfig called with the configuration in memory and
\* completing successfully, with no other operation interleaved, leaves the
\* store's state equal to the state before the call.
C19_ResaveRestoresState ==
  [][\A i \in 1..MaxReq + 1 :
       (ResaveAlone(i) /\ SaveLands(i) /\ reqs[i].ok)
         => appState' = reqs[i].prior]_vars

\* C19 (amended): such a saveConfig leaves config, isLoading and isEnabled as
\* they were before the call and error none; the state equals the state
\* before the call when no error was recorded then.
C19_ResaveKeepsAllButError ==
  [][\A i \in 1..MaxReq + 1 :
       (ResaveAlone(i) /\ SaveLands(i) /\ reqs[i].ok)
         => /\ appState' = [reqs[i].prior EXCEPT !.error = nullString]
            /\ reqs[i].prior.error = nullString
                 => appState' = reqs[i].prior]_vars

\* the in-memory configuration was saved again, alone, after a failed save
\* had left its message in error, and the save has succeeded
C19_Witness ==
  /\ last = "save resolved"
  /\ ResaveAlone(Len(reqs))
  /\ reqs[Len(reqs)].status = "done" /\ reqs[Len(reqs)].ok
  /\ reqs[Len(reqs)].prior.error # nullString
  /\ appState.error = nullString
  /\ appState.config = reqs[Len(reqs)].prior.config


\* C20: updateConfig(partial) overwrites exactly the top-level fields present
\* in partial, each with partial's value, leaves every other field of the
\* config and isLoading, error and isEnabled as they were, issues no backend
\* request, persists nothing, and leaves config none when it was none.
C20_UpdateConfigMergesTopLevel ==
  [][\A p \in Partials :
       UpdateConfig(p) =>
         /\ appState.config = null => appState'.config = null
         /\ appState.config # null =>
              /\ DOMAIN appState'.config = DOMAIN appState.config
              /\ \A k \in DOMAIN appState.config :
                   appState'.config[k] = IF k \in DOMAIN p THEN p[k]
                                         ELSE appState.config[k]
         /\ appState'.isLoading = appState.isLoading
         /\ appState'.error = appState.error
         /\ appState'.isEnabled = appState.isEnabled
         /\ reqs' = reqs /\ backend' = backend /\ queries' = queries]_vars

\* updateConfig has merged the language settings and the history limit into
\* a saved configuration while a call was in flight and an error was
\* recorded; the hotkeys and the llm settings are the saved ones and the
\* backend still holds the saved configuration
C20_Witness ==
  /\ last = "updateConfig"
  /\ appState.config # null
  /\ appState.config.history_limit = 100
  /\ appState.config.language.current_target = "zh-CN"
  /\ appState.config.hotkey.full_mode.count = 5
  /\ appState.config.hotkey.selected_mode = defaultConfig.hotkey.selected_mode
  /\ appState.config.llm = defaultConfig.llm
  /\ backend.history_limit = 500
  /\ appState.error # nullString
  /\ \E i \in DOMAIN reqs : reqs[i].status = "sent"


\* ================================================================ language
\* properties of the LanguageSettings handlers under SpecLanguage

\* current_target names one of the favorites, or there are none
TargetAmongFavorites(language) ==
  language.favorite_languages # <<>>
    => language.current_target \in Codes(language.favorite_languages)

\* C21: in every reachable state, in the language configuration the
\* component holds, in the one in the store, in the persisted one and in
\* every one handed to saveConfig, current_target is the code of a favorite
\* whenever there are favorites.
C21_TargetAmongFavorites ==
  /\ languageProps # null => TargetAmongFavorites(languageProps.languageConfig)
  /\ appState.config # null => TargetAmongFavorites(appState.config.language)
  /\ TargetAmongFavorites(backend.language)
  /\ \A i \in DOMAIN reqs :
       reqs[i].kind = "save_config"
         => TargetAmongFavorites(reqs[i].config.language)


\* C22: removing the favorite whose code is current_target, when a favorite
\* remains, sets current_target to the code of the first remaining entry;
\* removing any other favorite leaves current_target unchanged.  The list
\* loses exactly the removed entry, and the save issued carries the result.
C22_RemoveRetargets ==
  [][\A code \in LanguageInputs :
       removeLanguage(code) =>
         LET old == languageProps.languageConfig
             new == languageProps'.languageConfig
         IN /\ Codes(new.favorite_languages)
                 = Codes(old.favorite_languages) \ {code}
            /\ Len(new.favorite_languages) = Len(old.favorite_languages) - 1
            /\ (old.current_target = code /\ new.favorite_languages # <<>>)
                 => new.current_target = new.favorite_languages[1].code
            /\ old.current_target # code
                 => new.current_target = old.current_target
            /\ Len(reqs') = Len(reqs) + 1
            /\ reqs'[Len(reqs')].config.language = new]_vars

\* the target en-US was removed from the default favorites, and the target is
\* now zh-CN, the first of the five that remain
C22_Witness ==
  /\ last = "removeLanguage"
  /\ languageProps # null
  /\ Len(languageProps.languageConfig.favorite_languages) = 5
  /\ "en-US" \notin Codes(languageProps.languageConfig.favorite_languages)
  /\ languageProps.languageConfig.favorite_languages[1].code = "zh-CN"
  /\ languageProps.languageConfig.current_target = "zh-CN"
  /\ reqs[Len(reqs)].config.language = languageProps.languageConfig


\* no two entries of the list have the same code
UniqueCodes(languages) ==
  \A j, k \in DOMAIN languages :
    languages[j].code = languages[k].code => j = k

\* the favorites are unique by code wherever they are held
NoDuplicateFavorites ==
  /\ languageProps # null
       => UniqueCodes(languageProps.languageConfig.favorite_languages)
  /\ appState.config # null
       => UniqueCodes(appState.config.language.favorite_languages)
  /\ UniqueCodes(backend.language.favorite_languages)
  /\ \A i \in DOMAIN reqs :
       reqs[i].kind = "save_config"
         => UniqueCodes(reqs[i].config.language.favorite_languages)

\* C23: after any step from the start-up state (whose lists are those of the
\* persisted configurations) favorite_languages holds no two entries with
\* the same code, in the component, the store, the backend or a save
\* request; and adding a
\* language (preset or custom) whose code is already present changes
\* neither the list nor the store and issues no save.
C23_FavoritesUniqueByCode ==
  [][/\ NoDuplicateFavorites'
     /\ \A c \in CustomInputs :
          (/\ addCustomLanguage(c[1], c[2])
           /\ c[1] \in Codes(languageProps.languageConfig.favorite_languages))
            => /\ languageProps' = languageProps
               /\ appState' = appState
               /\ reqs' = reqs /\ backend' = backend]_vars

\* the dialog was confirmed with the code en-US while en-US was a favorite:
\* the six default favorites are as loaded and no save has been issued
C23_Witness ==
  /\ last = "addCustomLanguage"
  /\ languageProps # null
  /\ languageProps.languageConfig = defaultConfig.language
  /\ Len(reqs) = 1


\* ================================================================== hotkeys
\* further properties of the HotkeySettings handlers under Spec

\* C24: at most one of the two slots is Recording after any step, and a
\* click that starts one slot's recorder while the other slot is Recording
\* leaves the other slot Idle and commits nothing.
C24_OneRecorder ==
  [][/\ ~(selectedRecording' /\ fullRecording')
     /\ (ClickSelected /\ fullRecording)
          => selectedRecording' /\ ~fullRecording'
     /\ (ClickFull /\ selectedRecording)
          => fullRecording' /\ ~selectedRecording'
     /\ (ClickSelected \/ ClickFull)
          => /\ selectedMode' = selectedMode /\ fullMode' = fullMode
             /\ appState' = appState /\ reqs' = reqs
             /\ queries' = queries /\ onUpdateLog' = onUpdateLog]_vars

\* the selected-text button was clicked while the full-text slot was
\* Recording
C24_Witness ==
  /\ last = "click selected, full recording"
  /\ selectedRecording /\ ~fullRecording
  /\ focus = "selected"
  /\ onUpdateLog = <<>>


\* ==================================================================== store
\* further properties of the store under SpecLocal

\* C25: setEnabled(b) sets isEnabled to b and leaves config, isLoading and
\* error unchanged, sends no request and persists nothing; every other step
\* of the store -- the start and either outcome of loadConfig and saveConfig,
\* and updateConfig -- leaves isEnabled unchanged.
C25_EnabledIndependent ==
  [][/\ \A b \in BOOLEAN :
          SetEnabled(b) => /\ appState' = [appState EXCEPT !.isEnabled = b]
                           /\ reqs' = reqs /\ backend' = backend
     /\ (\A b \in BOOLEAN : ~SetEnabled(b))
          => appState'.isEnabled = appState.isEnabled]_vars

\* the flag was switched off while an error was recorded, and a load has
\* completed since: the flag is still off
C25_Witness ==
  /\ last = "load resolved"
  /\ ~appState.isEnabled
  /\ appState.config # null
  /\ \E i \in DOMAIN reqs :
       reqs[i].kind = "save_config" /\ reqs[i].status = "done" /\ ~reqs[i].ok


\* C26: the configuration in memory is none in the initial state (the one no
\* handler has run in); it becomes non-none
\* only when a load completes (with the fetched or the default
\* configuration) or a save succeeds; and once non-none it is non-none after
\* every later step -- loads, saves, their failures, updateConfig, setEnabled.
C26_ConfigNeverNoneAgain ==
  [][/\ last = "init" => appState.config = null
     /\ appState.config # null => appState'.config # null
     /\ (appState.config = null /\ appState'.config # null)
          => last' \in {"load resolved", "load rejected", "save resolved"}
    ]_vars

\* a configuration was installed and a load and a save have failed since
C26_Witness ==
  /\ last = "save rejected"
  /\ appState.config # null
  /\ appState.error # nullString
  /\ \E i, j \in DOMAIN reqs :
       /\ i < j
       /\ reqs[i].status = "done" /\ reqs[i].ok
       /\ reqs[j].kind = "get_config" /\ reqs[j].status = "done"
       /\ ~reqs[j].ok


\* ================================================================== display
\* properties of formatHotkey under SpecFormat

\* the text expected for each hotkey value
ExpectedText ==
  { << [type |-> "Combination", modifiers |-> <<"Meta">>, key |-> "t"],
       "Cmd + T" >>,
    << [type |-> "Combination", modifiers |-> <<"Control", "Alt", "Shift">>,
        key |-> "k"],
       "Ctrl + Option + Shift + K" >>,
    << [type |-> "Combination", modifiers |-> <<"Hyper">>, key |-> "k"],
       "Hyper + K" >>,
    << [type |-> "Combination", key |-> "t"], "T" >>,
    << [type |-> "Consecutive", key |-> " ", count |-> 3], "Space x 3" >>,
    << [type |-> "Consecutive", key |-> "k", count |-> 5], "K x 5" >>,
    << [type |-> "Consecutive", key |-> "k"], "K x 3" >> }

\* C27: whichever slot shows a hotkey, and whatever the other slot's recorder
\* is doing, an Idle slot's button carries the text of its hotkey value
\* alone: for a Combination the modifiers under their display names (Meta as
\* Cmd, Control as Ctrl, Alt as Option, others as they are) and the
\* upper-cased key, joined by " + "; for a Consecutive the key name (Space
\* for the space key), the sign and the count, 3 when the count is absent.
C27_FormatHotkey ==
  /\ \A h \in HotkeyValues : \E c \in ExpectedText : c[1] = h
  /\ \A c \in ExpectedText :
       /\ (~selectedRecording /\ selectedMode = c[1]) => SelectedLabel = c[2]
       /\ (~fullRecording /\ fullMode = c[1]) => FullLabel = c[2]

\* both slots show the same Consecutive hotkey without a count; the
\* selected-text slot is Recording and the full-text slot shows the text
C27_Witness ==
  /\ last = "click selected"
  /\ selectedRecording /\ ~fullRecording
  /\ selectedMode = [type |-> "Consecutive", key |-> "k"]
  /\ fullMode = selectedMode
  /\ FullLabel = "K x 3"
  /\ SelectedLabel # FullLabel


\* the hotkey configuration in memory, none before the first load
HotkeyOf(state) ==
  IF state.config = null THEN null ELSE state.config.hotkey

\* C28: the hotkey configuration in the store changes only in a step in
\* which a load completes or a save_config succeeds; the steps of the
\* capture component (key-downs, clicks, blurs, count edits) and the failure
\* of a save leave the store's configuration as it is, whatever the
\* component holds.
C28_StoreHotkeyChangesOnlyOnLanding ==
  [][/\ HotkeyOf(appState') # HotkeyOf(appState)
          => last' \in {"load resolved", "load rejected", "save resolved"}
     /\ Capture => appState'.config = appState.config
     /\ \A i \in 1..MaxReq + 1 :
          SaveSettled(i, FALSE) => appState'.config = appState.config]_vars

\* the component has committed a selected hotkey and edited the count, the
\* first save has failed and the second is in flight: the store still has
\* the hotkeys that were loaded
C28_Witness ==
  /\ last = "save rejected"
  /\ mounted
  /\ Len(onUpdateLog) = 2
  /\ selectedMode # appState.config.hotkey.selected_mode
  /\ fullMode # appState.config.hotkey.full_mode
  /\ appState.config.hotkey = defaultConfig.hotkey
  /\ \E i \in DOMAIN reqs : reqs[i].kind = "save_config" /\ reqs[i].status = "sent"


\* properties of the hotkey commits under SpecCommit

\* C29: every save_config request issued by a hotkey commit carries a
\* configuration with the fields of the configuration in memory, whose llm,
\* language and history_limit are those in memory when the request is
\* issued and whose hotkey is the pair the component has just committed.
C29_CommitSavesWholeConfig ==
  [][(Len(reqs') = Len(reqs) + 1 /\ reqs'[Len(reqs')].origin = "hotkey")
       => LET sent == reqs'[Len(reqs')].config
          IN /\ reqs'[Len(reqs')].kind = "save_config"
             /\ DOMAIN sent = DOMAIN appState.config
             /\ sent.llm = appState.config.llm
             /\ sent.language = appState.config.language
             /\ sent.history_limit = appState.config.history_limit
             /\ sent.hotkey = [selected_mode |-> selectedMode',
                               full_mode |-> fullMode']
             /\ appState'.config = appState.config]_vars

\* the target was changed to zh-CN in the header and saved, and a hotkey
\* commit has then sent a configuration with that target and new hotkeys
C29_Witness ==
  /\ last \in {"handleSelectedKeydown", "updateConsecutiveCount"}
  /\ reqs # <<>>
  /\ reqs[Len(reqs)].origin = "hotkey"
  /\ reqs[Len(reqs)].status = "sent"
  /\ appState.config.language.current_target = "zh-CN"
  /\ reqs[Len(reqs)].config.language.current_target = "zh-CN"
  /\ reqs[Len(reqs)].config.hotkey # appState.config.hotkey


\* properties of overlapping calls under SpecStore

\* C30: whenever no load or save is in flight, the configuration in memory
\* is the configuration the backend holds, whatever the order in which the
\* backend executed the calls and the order in which their answers landed
\* (stated for the runs in which every call succeeded).
C30_IdleStoreMatchesBackend ==
  (reqs # <<>> /\ Quiet(reqs) /\ \A k \in DOMAIN reqs : reqs[k].ok)
    => appState.config = backend


\* properties of saves of different sections under SpecCommit

\* the save_config requests issued so far
Saves == {k \in DOMAIN reqs : reqs[k].kind = "save_config"}

\* C31: when a save issued by the header's target selector and a save issued
\* by a hotkey commit are the only saves, both succeeded and nothing is in
\* flight, the configuration in memory has the language of the first and the
\* hotkeys of the second.
C31_BothSectionsKept ==
  \A i, j \in DOMAIN reqs :
    ( /\ Saves = {i, j}
      /\ reqs[i].origin = "language" /\ reqs[j].origin = "hotkey"
      /\ reqs[i].ok /\ reqs[j].ok
      /\ Quiet(reqs) )
    => /\ appState.config.language = reqs[i].config.language
       /\ appState.config.hotkey = reqs[j].config.hotkey


\* properties of commits after a failed save under Spec

\* C32: the configuration was loaded, a full-text commit (the second
\* request: it differs from the loaded configuration in full_mode only) was
\* refused by the backend, and a selected-text commit (the third request, with
\* a new selected_mode) was saved; then full_mode, in memory and in the
\* backend, is the one that was loaded.
C32_FailedCommitNotPersisted ==
  ( /\ Len(reqs) = 3 /\ Quiet(reqs)
    /\ reqs[1].kind = "get_config" /\ reqs[1].ok
    /\ reqs[2].origin = "hotkey" /\ ~reqs[2].ok
    /\ reqs[3].origin = "hotkey" /\ reqs[3].ok
    /\ reqs[2].config.hotkey.selected_mode
         = reqs[1].config.hotkey.selected_mode
    /\ reqs[2].config.hotkey.full_mode # reqs[1].config.hotkey.full_mode
    /\ reqs[3].config.hotkey.selected_mode
         # reqs[1].config.hotkey.selected_mode )
  => /\ appState.config.hotkey.full_mode = reqs[1].config.hotkey.full_mode
     /\ backend.hotkey.full_mode = reqs[1].config.hotkey.full_mode


\* properties of the loading flag under SpecStore

\* C33: isLoading is true in every state in which a loadConfig or saveConfig
\* call is still awaiting its answer.
C33_LoadingWhileInFlight ==
  ~Quiet(reqs) => appState.isLoading


\* properties of the conflict banner under SpecConflict

\* C34: whenever the banner shows a conflict with a system shortcut, the
\* conflicts it shows are those of the selected-text hotkey committed last.
C34_BannerForCurrentHotkey ==
  conflictWarning \notin {null, MissingModifier}
    => /\ Len(SystemConflicts(selectedMode)) > 0
       /\ conflictWarning = ConflictMessage(SystemConflicts(selectedMode))


\* progress of the store's calls under SpecStoreLive

\* C35: every loadConfig and saveConfig call completes in the end, and
\* whenever calls are in flight a state follows in which none is and
\* isLoading is false: no run of successes and failures leaves it at true.
C35_CallsCompleteAndLoadingEnds ==
  /\ \A i \in 1..MaxReq :
       (Len(reqs) >= i) ~> (Len(reqs) >= i /\ reqs[i].status = "done")
  /\ (~Quiet(reqs)) ~> (Quiet(reqs) /\ ~appState.isLoading)

\* a load and a save have completed, one refused and one served, nothing is
\* in flight and isLoading is false
C35_Witness ==
  /\ Quiet(reqs) /\ ~appState.isLoading
  /\ \E i, j \in DOMAIN reqs :
       /\ reqs[i].kind = "get_config" /\ reqs[j].kind = "save_config"
       /\ reqs[i].ok # reqs[j].ok
  /\ last \in {"save rejected", "load rejected"}


\* properties of key-downs outside a recording under Spec

\* C36: a key-down handled by a slot that is not recording changes neither
\* slot's hotkey, neither recording flag, the banner nor the store, and
\* issues no save and no conflict query.
C36_IdleKeydownNoEffect ==
  [][last' \in {"handleSelectedKeydown, idle", "handleFullKeydown, idle"}
       => UNCHANGED <<selectedMode, fullMode, selectedRecording,
                      fullRecording, conflictWarning, consecutiveCount,
                      appState, backend, reqs, queries, onUpdateLog>>]_vars

\* the selected-text slot committed a hotkey, kept the focus, and has then
\* handled a key-down while Idle: still one commit, one request for it
C36_Witness ==
  /\ last = "handleSelectedKeydown, idle"
  /\ focus = "selected" /\ ~selectedRecording
  /\ Len(onUpdateLog) = 1 /\ Len(queries) = 1
  /\ onUpdateLog[1].selected = selectedMode
  /\ conflictWarning = null

====
